---- MODULE Spec2Model ----
(***************************************************************************)
(* Model of the reactive runtime (reactive.ts): the proxy layer            *)
(* (createState), the dependency graph (track / trigger / cleanup), the    *)
(* microtask scheduler (queueEffect / flushEffects) and the two effect     *)
(* lifecycles (effect, createEffect).                                      *)
(*                                                                         *)
(* The program state is carried through the handlers as one record (see    *)
(* State / Commit): every function of the source is an operator from a     *)
(* state record to a state record, composed in the order the source calls  *)
(* them.  A return value is left in the field ret.                         *)
(***************************************************************************)
EXTENDS Integers, Sequences, FiniteSets, TLC

VARIABLES
    activeEffect,           \* let activeEffect (null or a subscriber)
    targetMap,              \* forward index: <<object, key>> -> its subscribers, in insertion order
    effectDepsMap,          \* reverse index: subscriber -> [has, deps]
    proxyCache,             \* target -> its proxy (Null when not wrapped yet)
    proxyParentMap,         \* proxy -> <<parent, key>> or NoParent
    proxyCount,             \* target -> number of proxies built over it so far
    pendingEffects,         \* the pending batch, in insertion order, no duplicates
    isFlushPending,
    microtasks,             \* flushEffects callbacks handed to queueMicrotask, not yet run
    activeComponentEffects, \* Null, or the registration list open during setup
    effectsRef,             \* the component's registered reactiveEffectFn closures
    cleanups1,              \* unmount closures held by the first useEffect
    cleanups2,              \* unmount closures held by the second useEffect
    phase,                  \* the component's position in its host lifecycle
    rec,                    \* the record target {a, b, flag, items: arr}
    arr,                    \* the sequence target
    subs,                   \* the subscriber closures created so far and their captured variables
    runCount,               \* history: body runs of each subscriber during the last operation
    seen,                   \* history: the length a "readLen" body observed in its latest run
    readSet,                \* history: the <<target, key>> pairs each body read in its latest run
    log,                    \* history: the body runs and cleanup calls of the last operation,
                            \*          in the order they were made
    writes,                 \* history: value-changing writes, since the last flush, to a property
                            \*          in the subscriber's readSet (counted up to MaxWrites)
    last,                   \* history: the last operation
    program                 \* which caller program the behaviour runs (fixed by Init)

vars == <<activeEffect, targetMap, effectDepsMap, proxyCache, proxyParentMap, proxyCount,
          pendingEffects, isFlushPending, microtasks, activeComponentEffects, effectsRef,
          cleanups1, cleanups2, phase, rec, arr, subs, runCount, seen, readSet, log,
          writes, last, program>>

----------------------------------------------------------------------------
(* Bounds *)

MaxEffects == 2     \* effect() calls the caller program makes itself
MaxOuter == 1       \* ... when its bodies nest, or when the adapter makes them
MaxNested == 2      \* effect() calls made from inside effect bodies
MaxWrites == 2      \* the history counter writes stops counting here
MaxLen == 3         \* longest sequence target
MaxVal == 1         \* scalar properties range over 0..MaxVal
MaxScoped == 1      \* createEffect calls made by the component's setup

(* Each registered scoped effect is mounted by both useEffect callbacks     *)
MaxSubs == MaxEffects + MaxNested + 2 * MaxScoped

Null == 0
Undefined == -1
CleanupFn == 1          \* a cleanup function returned by a scoped body
ComponentEffects == 1   \* the reference to the component's registration array

SubIds == 1..MaxSubs
Vals == 0..MaxVal

(* The objects of the heap.  Targets are the caller's plain objects: the     *)
(* record, the sequence and the component's props.  Every `new Proxy` is an *)
(* object of its own, distinct from its target: the n-th proxy built over   *)
(* target t is Proxy(t, n).                                                 *)
RObj == <<"target", "record", 0>>
AObj == <<"target", "sequence", 0>>
PObj == <<"target", "props", 0>>
Targets == {RObj, AObj, PObj}
Proxy(t, n) == <<"proxy", t[2], n>>
TargetOf(proxy) == <<"target", proxy[2], 0>>
NoObject == <<"null", "", 0>>
NoParent == <<>>
NoKey == "undefined"

ScalarKeys == {"a", "b", "flag"}
ArrayMethods == {"push", "pop", "shift", "unshift", "splice", "sort", "reverse"}
IndexKeys == {ToString(i) : i \in 0..(MaxLen + 1)}
(* The keys the caller programs read through a wrapper *)
ReadKeys == ScalarKeys \cup {"items", "list", "length"}

(* Property keys are strings; an array index i is the key ToString(i).      *)
IsIndexKey(k) == k \in IndexKeys
ToIndex(k) == CHOOSE i \in 0..(MaxLen + 1) : ToString(i) = k

InitArr == <<1, 2>>

(* The caller programs the model runs.  Each uses the whole runtime; they   *)
(* differ in the objects they wrap, the effect bodies they pass and the     *)
(* properties they write:                                                   *)
(*   "record"     free-standing effects over the record's scalar properties *)
(*   "nested"     a free-standing effect whose body creates another effect  *)
(*   "sequence"   free-standing effects over the sequence, pushes           *)
(*   "component"  a host component with scoped effects, beside the one      *)
(*                free-standing effect the adapter creates per component    *)
(*   "reentrant"  free-standing effects, one of whose bodies writes         *)
(*   "throwing"   free-standing effects, one of whose bodies may throw      *)
Programs == {"record", "nested", "sequence", "component", "reentrant", "throwing"}

(* The effect bodies (caller code) a program passes to effect()             *)
(*   readA, readB   state.a / state.b                                       *)
(*   cleanIf        return state.a ? cleanup : undefined                    *)
(*   readAll        state.a; state.b; state.flag                            *)
(*   cond           state.flag ? state.a : state.b                          *)
(*   nest           state.a; effect(readB); state.b                         *)
(*   readLen        items.length, items the caller's wrapper of the sequence *)
(*   readItems      state.items                                             *)
(*   nestItems      effect(readItems); state.items                          *)
(*   copy           state.b = state.a                                       *)
(*   popReadA       items.pop(); state.a                                    *)
(*   readMore       if (state.a) state.b                                    *)
(*   throwIf        if (state.flag) throw new Error(); state.b              *)
FreeBodies(prog) ==
    CASE prog = "record" -> {"readAll", "cond"}
      [] prog = "nested" -> {"nest"}
      [] prog = "sequence" -> {"readLen", "readItems", "nestItems", "popReadA"}
      [] prog = "component" -> {"readA"}
      [] prog = "reentrant" -> {"copy", "readB"}
      [] prog = "throwing" -> {"throwIf", "readB"}

(* ... and to createEffect() *)
ScopedBodies == {"readA", "cleanIf", "nest", "readMore"}

(* The effect() calls a program makes itself: the adapter makes one per     *)
(* component (subscribe)                                                    *)
TopEffects(prog) == IF prog \in {"nested", "component"} THEN MaxOuter ELSE MaxEffects

(* The targets a program wraps itself, and the properties it writes *)
RootTargets(prog) == IF prog = "sequence" THEN {RObj, AObj, PObj} ELSE {RObj}
WrittenKeys(prog) ==
    CASE prog = "record" -> ScalarKeys
      [] prog = "nested" -> {"a", "b"}
      [] prog = "sequence" -> {}
      [] prog = "component" -> {"a", "b"}
      [] prog = "reentrant" -> {"a", "b"}
      [] prog = "throwing" -> {"b", "flag"}

(* ... and the properties it deletes *)
DeletedKeys(prog) == IF prog = "record" THEN {"a"} ELSE {}

----------------------------------------------------------------------------
(* The state record *)

State ==
    [activeEffect |-> activeEffect, targetMap |-> targetMap, effectDepsMap |-> effectDepsMap,
     proxyCache |-> proxyCache, proxyParentMap |-> proxyParentMap, proxyCount |-> proxyCount,
     pendingEffects |-> pendingEffects, isFlushPending |-> isFlushPending,
     microtasks |-> microtasks, activeComponentEffects |-> activeComponentEffects,
     effectsRef |-> effectsRef, cleanups1 |-> cleanups1, cleanups2 |-> cleanups2,
     phase |-> phase, rec |-> rec, arr |-> arr, subs |-> subs,
     runCount |-> [e \in SubIds |-> 0], seen |-> seen, readSet |-> readSet,
     log |-> <<>>,
     writes |-> writes,
     ret |-> Null, threw |-> FALSE, running |-> Null, overflow |-> FALSE]

Commit(s, op) ==
    /\ ~s.overflow
    /\ activeEffect' = s.activeEffect
    /\ targetMap' = s.targetMap
    /\ effectDepsMap' = s.effectDepsMap
    /\ proxyCache' = s.proxyCache
    /\ proxyParentMap' = s.proxyParentMap
    /\ proxyCount' = s.proxyCount
    /\ pendingEffects' = s.pendingEffects
    /\ isFlushPending' = s.isFlushPending
    /\ microtasks' = s.microtasks
    /\ activeComponentEffects' = s.activeComponentEffects
    /\ effectsRef' = s.effectsRef
    /\ cleanups1' = s.cleanups1
    /\ cleanups2' = s.cleanups2
    /\ phase' = s.phase
    /\ rec' = s.rec
    /\ arr' = s.arr
    /\ subs' = s.subs
    /\ runCount' = s.runCount
    /\ seen' = s.seen
    /\ readSet' = s.readSet
    /\ log' = s.log
    /\ writes' = s.writes
    /\ last' = op
    /\ UNCHANGED program

----------------------------------------------------------------------------
(* The step ends: op names it when it returned, opThrew when it threw *)
Finish(s, op, opThrew) == Commit(s, IF s.threw THEN opThrew ELSE op)

----------------------------------------------------------------------------
(* Insertion-ordered Set (the JavaScript Set) *)

InSeq(q, x) == \E i \in 1..Len(q) : q[i] = x
SetAdd(q, x) == IF InSeq(q, x) THEN q ELSE Append(q, x)
SetDelete(q, x) == SelectSeq(q, LAMBDA y : y # x)

----------------------------------------------------------------------------
(* Reflect.get / Reflect.set on the targets.  The proxies define only get   *)
(* and set traps, so every other internal method reaches the target.        *)

ReflectGet(s, target, key) ==
    IF target = RObj
    THEN IF key \in {"items", "list"} THEN AObj
         ELSE IF key \in ScalarKeys THEN s.rec[key] ELSE Undefined
    ELSE IF target = PObj
    THEN IF key = "items" THEN AObj ELSE Undefined
    ELSE IF target = AObj
    THEN IF key = "length" THEN Len(s.arr)
         ELSE IF IsIndexKey(key) /\ ToIndex(key) < Len(s.arr) THEN s.arr[ToIndex(key) + 1]
         ELSE Undefined
    ELSE Undefined

(* value !== null && typeof value === "object": of the caller's objects the *)
(* record's items and list properties and the props' items property hold an *)
(* object, the one sequence, and they always do.                            *)
IsObject(target, key) ==
    \/ target = RObj /\ key \in {"items", "list"}
    \/ target = PObj /\ key = "items"

(* An array target grows when an index at or past its length is defined     *)
(* (pushing writes index = length, so the model appends), and is cut when   *)
(* "length" is set to less.                                                 *)
ReflectSet(s, target, key, value) ==
    IF target = RObj /\ key \in ScalarKeys
    THEN [s EXCEPT !.rec[key] = value]
    ELSE IF target = AObj /\ key = "length"
    THEN [s EXCEPT !.arr = SubSeq(@, 1, IF value < Len(@) THEN value ELSE Len(@))]
    ELSE IF target = AObj /\ IsIndexKey(key)
    THEN IF ToIndex(key) < Len(s.arr)
         THEN [s EXCEPT !.arr[ToIndex(key) + 1] = value]
         ELSE [s EXCEPT !.arr = Append(@, value)]
    ELSE s

----------------------------------------------------------------------------
(* The subscribers are closures over caller code, which calls back into the  *)
(* runtime: effect, its execute closure and the body fn are defined with    *)
(* the effect lifecycle below.                                              *)
RECURSIVE fn(_, _), execute(_, _), effect(_, _)

----------------------------------------------------------------------------
(* Scheduler *)

(* A scheduler that calls the subscriber at once instead of queueing it *)
queueEffect_RunsNow(s, e) ==
    IF s.subs[e].kind = "execute" THEN execute(s, e) ELSE fn(s, e)

(* A scheduler that schedules a flush for every subscriber it queues *)
queueEffect_AlwaysSchedules(s, e) ==
    [s EXCEPT !.pendingEffects = SetAdd(@, e),
              !.isFlushPending = TRUE,
              !.microtasks = @ + 1]

(* A scheduler that sets the flag and queues no flush *)
queueEffect_NeverSchedules(s, e) ==
    [s EXCEPT !.pendingEffects = SetAdd(@, e),
              !.isFlushPending = TRUE]

(* A scheduler that moves a subscriber queued again to the end of the batch *)
queueEffect_MovesToEnd(s, e) ==
    [s EXCEPT !.pendingEffects = Append(SetDelete(@, e), e),
              !.isFlushPending = TRUE,
              !.microtasks = IF ~s.isFlushPending THEN @ + 1 ELSE @]

queueEffect(s, e) ==
    [s EXCEPT !.pendingEffects = SetAdd(@, e),
              !.isFlushPending = TRUE,
              !.microtasks = IF ~s.isFlushPending THEN @ + 1 ELSE @]

----------------------------------------------------------------------------
(* Dependency graph *)

track(s, target, key) ==
    IF s.activeEffect = Null THEN s
    ELSE [s EXCEPT
            !.targetMap = IF <<target, key>> \in DOMAIN @
                          THEN [@ EXCEPT ![<<target, key>>] = SetAdd(@, s.activeEffect)]
                          ELSE (<<target, key>> :> <<s.activeEffect>>) @@ @,
            !.effectDepsMap[s.activeEffect] =
                [has |-> TRUE, deps |-> Append(@.deps, <<target, key>>)]]

(* depsMap.get(key): the subscribers of (object, key), in insertion order   *)
Deps(s, object, key) ==
    IF <<object, key>> \in DOMAIN s.targetMap THEN s.targetMap[<<object, key>>] ELSE <<>>

RECURSIVE QueueAll(_, _)
QueueAll(s, deps) ==
    IF deps = <<>> THEN s ELSE QueueAll(queueEffect(s, Head(deps)), Tail(deps))

trigger(s, object, key) == QueueAll(s, Deps(s, object, key))

(* Reflect.deleteProperty: the property is absent afterwards, and reads as  *)
(* undefined                                                                *)
ReflectDelete(s, target, key) ==
    IF target = RObj /\ key \in ScalarKeys THEN [s EXCEPT !.rec[key] = Undefined] ELSE s

----------------------------------------------------------------------------
(* createState and the proxy traps *)

(* A createState that never consults the cache *)
createState_NoCache(s, obj, parent, key) ==
    LET proxy == Proxy(obj, s.proxyCount[obj] + 1)
    IN  [s EXCEPT
           !.proxyCount[obj] = @ + 1,
           !.proxyCache[obj] = proxy,
           !.proxyParentMap = IF parent # NoObject /\ key # NoKey
                              THEN (proxy :> <<parent, key>>) @@ @
                              ELSE @,
           !.ret = proxy]

(* A createState that records the parent on a cache hit as well *)
createState_RelinksOnHit(s, obj, parent, key) ==
    IF s.proxyCache[obj] # NoObject
    THEN [s EXCEPT !.proxyParentMap = IF parent # NoObject /\ key # NoKey
                                       THEN (s.proxyCache[obj] :> <<parent, key>>) @@ @
                                       ELSE @,
                   !.ret = s.proxyCache[obj]]
    ELSE createState_NoCache(s, obj, parent, key)

createState(s, obj, parent, key) ==
    IF s.proxyCache[obj] # NoObject
    THEN [s EXCEPT !.ret = s.proxyCache[obj]]
    ELSE LET proxy == Proxy(obj, s.proxyCount[obj] + 1)
         IN  [s EXCEPT
                !.proxyCount[obj] = @ + 1,
                !.proxyCache[obj] = proxy,
                !.proxyParentMap = IF parent # NoObject /\ key # NoKey
                                   THEN (proxy :> <<parent, key>>) @@ @
                                   ELSE @,
                !.ret = proxy]

(* proxyParentMap.get(proxy) *)
ParentOf(s, proxy) ==
    IF proxy \in DOMAIN s.proxyParentMap THEN s.proxyParentMap[proxy] ELSE NoParent

(* get trap, after track: nested objects are returned wrapped *)
Wrap(s, target, key) ==
    IF IsObject(target, key)
    THEN createState(s, ReflectGet(s, target, key), target, key)
    ELSE [s EXCEPT !.ret = ReflectGet(s, target, key)]

(* get trap *)
get(s, proxy, key) ==
    IF TargetOf(proxy) = AObj /\ key \in ArrayMethods
    THEN [s EXCEPT !.ret = <<"arrayInstrumentations", key>>]
    ELSE Wrap(track(s, TargetOf(proxy), key), TargetOf(proxy), key)

(* set trap *)
set(s, proxy, key, value) ==
    IF ReflectGet(s, TargetOf(proxy), key) # value
    THEN trigger(ReflectSet(s, TargetOf(proxy), key, value), TargetOf(proxy), key)
    ELSE ReflectSet(s, TargetOf(proxy), key, value)

(* A handler whose deleteProperty trap triggers the deleted property *)
deleteProperty_Triggers(s, proxy, key) ==
    trigger(ReflectDelete(s, TargetOf(proxy), key), TargetOf(proxy), key)

(* delete proxy[key]: the handler has no deleteProperty trap, so the        *)
(* deletion reaches the target                                              *)
deleteProperty(s, proxy, key) == ReflectDelete(s, TargetOf(proxy), key)

(* Array.prototype.push.apply(this, <<value>>) with this a proxy: the       *)
(* native reads length and writes the new index and length through the      *)
(* traps.                                                                   *)
(* ... the length read in ret: set the new index, set length, return it *)
SetAtLength(s, this, value) ==
    [set(set(s, this, ToString(s.ret), value), this, "length", s.ret + 1)
     EXCEPT !.ret = s.ret + 1]

NativePush(s, this, value) == SetAtLength(get(s, this, "length"), this, value)

(* Array.prototype.pop.apply(this) with this a proxy: the native reads      *)
(* length and the last index through the get trap, deletes the index on the *)
(* target (no trap is defined for that) and writes length through the set   *)
(* trap; on an empty sequence it writes length 0.                           *)
(* ... the element read in ret: set length, return the element *)
SetLength(s, this, len) == [set(s, this, "length", len) EXCEPT !.ret = s.ret]

(* ... the length read in ret *)
PopAtLength(s, this) ==
    IF s.ret = 0
    THEN [set(s, this, "length", 0) EXCEPT !.ret = Undefined]
    ELSE SetLength(get(s, this, ToString(s.ret - 1)), this, s.ret - 1)

NativePop(s, this) == PopAtLength(get(s, this, "length"), this)

Native(s, method, this, value) ==
    IF method = "push" THEN NativePush(s, this, value)
    ELSE IF method = "pop" THEN NativePop(s, this)
    ELSE s

(* ... if (parentInfo) trigger(parentInfo.parent, parentInfo.key) *)
TriggerParent(s, this) ==
    IF ParentOf(s, this) # NoParent
    THEN trigger(s, ParentOf(s, this)[1], ParentOf(s, this)[2])
    ELSE s

(* ... after the native method returned result: restore tracking, trigger *)
Triggers(s, prevEffect, method, this, result) ==
    [TriggerParent(trigger(trigger([s EXCEPT !.activeEffect = prevEffect], this, method),
                           this, "length"),
                   this)
     EXCEPT !.ret = result]

(* ... the state after the native method, whose result is in ret *)
Instrumented(s, prevEffect, method, this) == Triggers(s, prevEffect, method, this, s.ret)

(* An instrumented method that leaves tracking on while the native runs *)
arrayInstrumentations_KeepsTracking(s, method, this, value) ==
    Instrumented(Native(s, method, this, value), s.activeEffect, method, this)

arrayInstrumentations(s, method, this, value) ==
    Instrumented(Native([s EXCEPT !.activeEffect = Null], method, this, value),
                 s.activeEffect, method, this)

(* this.method(value), the method the get trap returned in ret *)
CallMethod(s, this, value) == arrayInstrumentations(s, s.ret[2], this, value)

----------------------------------------------------------------------------
(* Effect bodies: the caller's code, run by fn().  state is the caller's    *)
(* wrapper of the record, items its wrapper of the sequence.                *)

(* What the body returns: readA always returns a cleanup function, cleanIf  *)
(* returns one when the value it read is 1, the others return undefined     *)
ReturnsCleanup(body, value) == body = "readA" \/ (body = "cleanIf" /\ value = 1)

(* return: the value the body's last read produced is in ret *)
Return(s, body, running) ==
    [s EXCEPT !.ret = IF ReturnsCleanup(body, s.ret) THEN CleanupFn ELSE Undefined,
              !.running = running]

(* History: the body of e has run; ret holds what its last read returned *)
Ran(s, e) ==
    [s EXCEPT !.runCount[e] = @ + 1,
              !.seen[e] = IF s.subs[e].fn = "readLen" THEN s.ret ELSE Undefined]

(* A read the running body makes through a wrapper: the get trap, and the   *)
(* history of what the body read.                                           *)
Noted(s, e, d) == IF e = Null THEN s ELSE [s EXCEPT !.readSet[e] = @ \cup {d}]

Read(s, proxy, key) == Noted(get(s, proxy, key), s.running, <<TargetOf(proxy), key>>)

(* flag ? state.a : state.b, the value of flag in ret *)
ReadEither(s, proxy, key1, key0) == Read(s, proxy, IF s.ret = 1 THEN key1 ELSE key0)

(* if (value) state[key], the value just read in ret *)
ReadIf(s, proxy, key) == IF s.ret = 1 THEN Read(s, proxy, key) ELSE s

(* state[key] = the value just read, in ret *)
WriteRead(s, proxy, key) == set(s, proxy, key, s.ret)

(* if (flag) throw new Error(), the value of flag in ret; else state[key] *)
ThrowOrRead(s, proxy, key) ==
    IF s.ret = 1 THEN [s EXCEPT !.threw = TRUE] ELSE Read(s, proxy, key)

(* A cleanup that leaves the reverse entry as it was *)
cleanup_KeepsReverse(s, e) ==
    LET deps == s.effectDepsMap[e]
    IN  IF deps.has
        THEN [s EXCEPT
                !.targetMap = [d \in DOMAIN @ |->
                    IF InSeq(deps.deps, d) THEN SetDelete(@[d], e) ELSE @[d]]]
        ELSE s

(* cleanup of effect(): remove the subscriber from every set its reverse    *)
(* entry names, then clear the reverse entry.                               *)
cleanup(s, e) ==
    LET deps == s.effectDepsMap[e]
    IN  IF deps.has
        THEN [s EXCEPT
                !.targetMap = [d \in DOMAIN @ |->
                    IF InSeq(deps.deps, d) THEN SetDelete(@[d], e) ELSE @[d]],
                !.effectDepsMap[e].deps = <<>>]
        ELSE s

(* effect() calls so far: by the caller program itself, from inside bodies *)
NumEffects(s, nested) ==
    Cardinality({e \in 1..Len(s.subs) :
                    s.subs[e].kind = "execute" /\ s.subs[e].nested = nested})

(* const execute = () => { cleanup(); activeEffect = execute;               *)
(*                         try { fn() } finally { activeEffect = null } }   *)
execute(s, e) ==
    LET s1 == cleanup(s, e)
        s2 == [s1 EXCEPT !.activeEffect = e]
        s3 == fn(s2, e)
    IN  [s3 EXCEPT !.activeEffect = Null]

(* return () => { ... }: the caller gets the disposer unless execute threw *)
Returned(s, e) == [s EXCEPT !.ret = e, !.subs[e].returned = ~s.threw]

effect(s, body) ==
    IF NumEffects(s, s.running # Null) >= (IF s.running # Null THEN MaxNested ELSE MaxEffects)
    THEN [s EXCEPT !.overflow = TRUE]
    ELSE LET e == Len(s.subs) + 1
             s1 == [s EXCEPT !.subs = Append(@,
                        [kind |-> "execute", fn |-> body, cleanup |-> Undefined,
                         trackedDeps |-> <<>>, disposed |-> FALSE,
                         nested |-> s.running # Null, returned |-> FALSE,
                         called |-> 0])]
         IN  Returned(execute(s1, e), e)

fn(s, e) ==
    LET body == s.subs[e].fn
        state == s.proxyCache[RObj]
        items == s.proxyCache[AObj]
        s0 == [s EXCEPT !.running = e, !.readSet[e] = {},
                        !.log = Append(@, <<"run", e>>)]
        s9 ==
          CASE body = "readA" -> Ran(Read(s0, state, "a"), e)
            [] body = "cleanIf" -> Ran(Read(s0, state, "a"), e)
            [] body = "readB" -> Ran(Read(s0, state, "b"), e)
            [] body = "readAll" ->
                 Ran(Read(Read(Read(s0, state, "a"), state, "b"), state, "flag"), e)
            [] body = "cond" ->
                 Ran(ReadEither(Read(s0, state, "flag"), state, "a", "b"), e)
            [] body = "nest" ->
                 Ran(Read([effect(Read(s0, state, "a"), "readB") EXCEPT !.running = e],
                          state, "b"), e)
            [] body = "readLen" -> Ran(Read(s0, items, "length"), e)
            [] body = "readItems" -> Ran(Read(s0, state, "items"), e)
            [] body = "copy" -> Ran(WriteRead(Read(s0, state, "a"), state, "b"), e)
            [] body = "throwIf" -> Ran(ThrowOrRead(Read(s0, state, "flag"), state, "b"), e)
            [] body = "readMore" -> Ran(ReadIf(Read(s0, state, "a"), state, "b"), e)
            [] body = "popReadA" ->
                 Ran(Read(CallMethod(get(s0, items, "pop"), items, Undefined),
                          state, "a"), e)
            [] body = "nestItems" ->
                 Ran(Read([effect(s0, "readItems") EXCEPT !.running = e], state, "items"), e)
    IN  Return(s9, body, s.running)

(* The disposer effect() returns *)
dispose(s, e) ==
    LET s1 == cleanup(s, e)
    IN  [s1 EXCEPT !.effectDepsMap[e] = [has |-> FALSE, deps |-> <<>>],
                   !.subs[e].disposed = TRUE,
                   !.writes[e] = 0]

----------------------------------------------------------------------------
(* createEffect: the host-scoped effect *)

(* cleanup(): the function the body returned is called *)
(* (history: called counts the calls of the function now held)              *)
callCleanup(s, r) ==
    [s EXCEPT !.log = Append(@, <<"cleanup", r>>), !.subs[r].called = @ + 1]

(* effectRunner: the re-run wrapper handed to the dependency graph *)
(* cleanup = fn(): what the body returned is in ret *)
KeepCleanup(s, r) == [s EXCEPT !.subs[r].cleanup = s.ret, !.subs[r].called = 0]

(* An effectRunner that makes itself the active subscriber while it runs *)
effectRunner_Tracks(s, r) ==
    [KeepCleanup(fn(IF s.subs[r].cleanup = CleanupFn
                    THEN callCleanup([s EXCEPT !.activeEffect = r], r)
                    ELSE [s EXCEPT !.activeEffect = r], r), r)
     EXCEPT !.activeEffect = s.activeEffect]

(* An effectRunner that forgets the previous run's cleanup *)
effectRunner_NoCleanup(s, r) == KeepCleanup(fn(s, r), r)

effectRunner(s, r) ==
    KeepCleanup(fn(IF s.subs[r].cleanup = CleanupFn THEN callCleanup(s, r) ELSE s, r), r)

RECURSIVE Subscribe(_, _, _)
Subscribe(s, r, deps) ==
    IF deps = <<>> THEN s
    ELSE Subscribe([s EXCEPT !.targetMap[Head(deps)] = SetAdd(@, r)], r, Tail(deps))

(* ... after the first run: capture the tracked dependencies, restore the slot *)
Capture(s, r, prevEffect) ==
    [s EXCEPT !.subs[r].cleanup = s.ret,
              !.subs[r].called = 0,
              !.subs[r].trackedDeps = IF s.effectDepsMap[r].has
                                      THEN s.effectDepsMap[r].deps ELSE <<>>,
              !.activeEffect = prevEffect]

(* ... subscribe to the tracked dependencies; return the unmount closure *)
SubscribeTracked(s, r) == [Subscribe(s, r, s.subs[r].trackedDeps) EXCEPT !.ret = r]

(* reactiveEffectFn: what the host calls on mount; returns the unmount closure *)
reactiveEffectFn(s, body) ==
    IF Len(s.subs) >= MaxSubs
    THEN [s EXCEPT !.overflow = TRUE]
    ELSE LET r == Len(s.subs) + 1
             s1 == [s EXCEPT !.subs = Append(@,
                        [kind |-> "effectRunner", fn |-> body, cleanup |-> Undefined,
                         trackedDeps |-> <<>>, disposed |-> FALSE, nested |-> FALSE,
                         returned |-> TRUE, called |-> 0]),
                             !.activeEffect = r]
         IN  SubscribeTracked(Capture(fn(s1, r), r, s.activeEffect), r)

(* An unmount closure that calls the cleanup and leaves the edges *)
unmount_KeepsEdges(s, r) ==
    [(IF s.subs[r].cleanup = CleanupFn THEN callCleanup(s, r) ELSE s)
     EXCEPT !.effectDepsMap[r] = [has |-> FALSE, deps |-> <<>>],
            !.subs[r].disposed = TRUE]

(* The closure reactiveEffectFn returns *)
unmount(s, r) ==
    LET s1 == IF s.subs[r].cleanup = CleanupFn THEN callCleanup(s, r) ELSE s
        tracked == s1.subs[r].trackedDeps
    IN  [s1 EXCEPT
            !.targetMap = [d \in DOMAIN @ |->
                IF InSeq(tracked, d) THEN SetDelete(@[d], r) ELSE @[d]],
            !.effectDepsMap[r] = [has |-> FALSE, deps |-> <<>>],
            !.subs[r].disposed = TRUE]

(* A createEffect that registers without looking at the context *)
createEffect_NoContextCheck(s, body) == [s EXCEPT !.effectsRef = Append(@, body)]

(* A createEffect that runs the body as it registers it *)
createEffect_RunsBody(s, body) ==
    IF s.activeComponentEffects = Null
    THEN [s EXCEPT !.threw = TRUE]
    ELSE [reactiveEffectFn(s, body) EXCEPT !.effectsRef = Append(@, body)]

createEffect(s, body) ==
    IF s.activeComponentEffects = Null
    THEN [s EXCEPT !.threw = TRUE]
    ELSE [s EXCEPT !.effectsRef = Append(@, body)]

----------------------------------------------------------------------------
(* flushEffects *)

Call(s, e) ==
    IF s.subs[e].kind = "execute" THEN execute(s, e) ELSE effectRunner(s, e)

(* A flush that catches what a subscriber throws and goes on with the batch *)
RECURSIVE RunAll_Continues(_, _)
RunAll_Continues(s, effects) ==
    IF effects = <<>> THEN s
    ELSE RunAll_Continues([Call(s, Head(effects)) EXCEPT !.threw = FALSE], Tail(effects))

RECURSIVE RunAll(_, _)
RunAll(s, effects) ==
    IF effects = <<>> \/ s.threw THEN s ELSE RunAll(Call(s, Head(effects)), Tail(effects))

(* A flush that empties the batch and resets the flag after running it *)
flushEffects_ClearsAfter(s) ==
    [RunAll(s, s.pendingEffects) EXCEPT !.pendingEffects = <<>>, !.isFlushPending = FALSE]

flushEffects(s) ==
    LET effects == s.pendingEffects
        s1 == [s EXCEPT !.isFlushPending = FALSE, !.pendingEffects = <<>>]
    IN  RunAll(s1, effects)

----------------------------------------------------------------------------
(* Initial state: the module has just been loaded; the caller holds a       *)
(* record {a, b, flag, items}, whose items is the sequence, and a props     *)
(* object.                                                                  *)

Init ==
    /\ activeEffect = Null
    /\ targetMap = [d \in Targets \X ReadKeys |-> <<>>]
    /\ effectDepsMap = [e \in SubIds |-> [has |-> FALSE, deps |-> <<>>]]
    /\ proxyCache = [t \in Targets |-> NoObject]
    /\ proxyParentMap = <<>>
    /\ proxyCount = [t \in Targets |-> 0]
    /\ pendingEffects = <<>>
    /\ isFlushPending = FALSE
    /\ microtasks = 0
    /\ activeComponentEffects = Null
    /\ effectsRef = <<>>
    /\ cleanups1 = <<>>
    /\ cleanups2 = <<>>
    /\ phase = "init"
    /\ rec = [k \in ScalarKeys |-> 0]
    /\ arr = InitArr
    /\ subs = <<>>
    /\ runCount = [e \in SubIds |-> 0]
    /\ seen = [e \in SubIds |-> Undefined]
    /\ readSet = [e \in SubIds |-> {}]
    /\ log = <<>>
    /\ writes = [e \in SubIds |-> 0]
    /\ last = "init"
    /\ program \in Programs

(* The subscribers created so far, and the free-standing effects among them *)
(* whose disposer has not been called                                       *)
Subs == 1..Len(subs)
Active(e) == e \in Subs /\ subs[e].kind = "execute" /\ ~subs[e].disposed

(* History: a value-changing write to key has been made *)
Written(s, key) ==
    [s EXCEPT !.writes = [e \in SubIds |->
        IF /\ e <= Len(s.subs)
           /\ s.subs[e].kind = "execute"
           /\ ~s.subs[e].disposed
           /\ <<RObj, key>> \in s.readSet[e]
           /\ @[e] < MaxWrites
        THEN @[e] + 1 ELSE @[e]]]

Wrapped(t) == proxyCache[t] # NoObject

(* What a body needs the caller to hold before it can run *)
CanRun(body) ==
    /\ body \in {"readLen", "popReadA"} => Wrapped(AObj)
    /\ body # "readLen" => Wrapped(RObj)

----------------------------------------------------------------------------
(* The caller's operations *)

(* const state = createState(obj) *)
CreateState(t) ==
    /\ t \in RootTargets(program)
    /\ Commit(createState(State, t, NoObject, NoKey),
              IF Wrapped(t) THEN "createStateAgain" ELSE "createState")

(* const dispose = effect(body) *)
Effect(body) ==
    /\ body \in FreeBodies(program)
    /\ NumEffects(State, FALSE) < TopEffects(program)
    /\ CanRun(body)
    /\ Finish(effect(State, body), "effect", "effectThrew")

(* state[key] = value *)
Write(key, value) ==
    /\ key \in WrittenKeys(program)
    /\ Wrapped(RObj)
    /\ LET s == set(State, proxyCache[RObj], key, value)
       IN  IF rec[key] # value
           THEN Commit(Written(s, key), "write")
           ELSE Commit(s, "writeSame")

(* delete state[key] *)
Delete(key) ==
    /\ key \in DeletedKeys(program)
    /\ Wrapped(RObj)
    /\ Commit(deleteProperty(State, proxyCache[RObj], key),
              IF rec[key] # Undefined THEN "delete" ELSE "deleteAbsent")

(* object.push(value), the object the get trap returned in ret *)
PushOn(s, value) == CallMethod(get(s, s.ret, "push"), s.ret, value)

(* items.push(value), items the wrapper the caller holds *)
Push(value) ==
    /\ program = "sequence"
    /\ Wrapped(AObj)
    /\ Len(arr) < MaxLen
    /\ Commit(CallMethod(get(State, proxyCache[AObj], "push"), proxyCache[AObj], value),
              "push")

(* object[key], read by the caller outside any effect: the sequence reached *)
(* as state.list, or as other.items through the wrapper of a second object  *)
ReadThrough(t, key) ==
    /\ program = "sequence"
    /\ <<t, key>> \in {<<RObj, "list">>, <<PObj, "items">>}
    /\ Wrapped(t)
    /\ Commit(get(State, proxyCache[t], key), "readThrough")

(* items.pop() *)
Pop ==
    /\ program = "sequence"
    /\ Wrapped(AObj)
    /\ Commit(CallMethod(get(State, proxyCache[AObj], "pop"), proxyCache[AObj], Undefined),
              "pop")

(* state.items.push(value) *)
PushItems(value) ==
    /\ program = "sequence"
    /\ Wrapped(RObj)
    /\ Len(arr) < MaxLen
    /\ Commit(PushOn(get(State, proxyCache[RObj], "items"), value), "pushItems")

(* dispose() *)
Dispose(e) ==
    /\ e \in 1..Len(subs)
    /\ subs[e].kind = "execute"
    /\ subs[e].returned
    /\ ~subs[e].disposed
    /\ Commit(dispose(State, e), "dispose")

(* The microtask queued by queueEffect runs *)
Flush ==
    /\ microtasks > 0
    /\ Finish(flushEffects([State EXCEPT !.microtasks = @ - 1,
                                          !.writes = [e \in SubIds |-> 0]]),
              "flush", "flushThrew")

----------------------------------------------------------------------------
(* The component: first render (setup), mount of its effects, unmount *)

RECURSIVE RegisterAll(_, _)
RegisterAll(s, bodies) ==
    IF bodies = <<>> THEN s ELSE RegisterAll(createEffect(s, Head(bodies)), Tail(bodies))

(* reactive(): the first render opens the registration list, wraps the     *)
(* props, runs the caller's setup and closes the list                       *)
Setup(bodies) ==
    /\ program = "component"
    /\ phase = "init"
    /\ LET s1 == [State EXCEPT !.activeComponentEffects = ComponentEffects]
           s2 == createState(s1, PObj, NoObject, NoKey)
           s3 == RegisterAll(s2, bodies)
           s4 == [s3 EXCEPT !.activeComponentEffects = Null, !.phase = "rendered"]
       IN  Commit(s4, "setup")

(* createEffect(fn) called by the caller outside a component's setup: the   *)
(* call throws, and the caller goes on                                      *)
CreateEffectOutside(body) ==
    /\ program = "component"
    /\ body \in ScopedBodies
    /\ LET s == createEffect(State, body)
       IN  Commit(s, IF s.threw THEN "usageError" ELSE "createEffect")

RECURSIVE MountAll(_, _, _), Pushed(_, _, _)
MountAll(s, fns, cleanups) ==
    IF fns = <<>> THEN [s EXCEPT !.ret = cleanups]
    ELSE Pushed(reactiveEffectFn(s, Head(fns)), Tail(fns), cleanups)

(* cleanups.push(cleanup), the closure effectFn() returned in ret *)
Pushed(s, fns, cleanups) == MountAll(s, fns, Append(cleanups, s.ret))

(* What each useEffect callback returns closes over its cleanups *)
Keep1(s) == [s EXCEPT !.cleanups1 = s.ret]
Keep2(s) == [s EXCEPT !.cleanups2 = s.ret, !.phase = "mounted"]

(* The two useEffect(..., []) callbacks of reactive() run on mount *)
Mount ==
    /\ phase = "rendered"
    /\ \A i \in 1..Len(effectsRef) : CanRun(effectsRef[i])
    /\ Commit(Keep2(MountAll(Keep1(MountAll(State, effectsRef, <<>>)), effectsRef, <<>>)),
              "mount")

RECURSIVE UnmountAll(_, _)
UnmountAll(s, cleanups) ==
    IF cleanups = <<>> THEN s ELSE UnmountAll(unmount(s, Head(cleanups)), Tail(cleanups))

(* The cleanups the two useEffect callbacks returned run on unmount *)
Unmount ==
    /\ phase = "mounted"
    /\ LET s1 == UnmountAll(State, cleanups1)
           s2 == UnmountAll(s1, cleanups2)
       IN  Commit([s2 EXCEPT !.phase = "unmounted"], "unmount")

ScopedSeqs == UNION {[1..n -> ScopedBodies] : n \in 1..MaxScoped}

Next ==
    \/ \E t \in Targets : CreateState(t)
    \/ \E body \in FreeBodies(program) : Effect(body)
    \/ \E key \in ScalarKeys, value \in Vals : Write(key, value)
    \/ \E key \in ScalarKeys : Delete(key)
    \/ Push(1)
    \/ PushItems(1)
    \/ Pop
    \/ \E t \in {RObj, PObj}, key \in {"items", "list"} : ReadThrough(t, key)
    \/ \E e \in SubIds : Dispose(e)
    \/ Flush
    \/ \E bodies \in ScopedSeqs : Setup(bodies)
    \/ \E body \in ScopedBodies : CreateEffectOutside(body)
    \/ Mount
    \/ Unmount

Spec == Init /\ [][Next]_vars

(* The subscribers of a batch, as the calls a flush of it makes *)
RunsOf(batch) == [i \in 1..Len(batch) |-> <<"run", batch[i]>>]

(* The programs whose bodies neither throw nor create effects, with the     *)
(* host's guarantee that a queued microtask runs: queueMicrotask(flushEffects). *)
(* In these programs Flush is enabled exactly when a microtask is queued,   *)
(* and a Flush step is exactly a step that names itself in last and logs    *)
(* the calls of the pending batch, which changes <<last, log>>              *)
(* (FlushedIsFlush); the fairness condition is stated on that description   *)
(* of the step.                                                             *)
LiveInit == Init /\ program \in {"record", "reentrant"}

Flushed == microtasks > 0 /\ last' = "flush" /\ log' = RunsOf(pendingEffects)

LiveNext ==
    \/ \E t \in Targets : CreateState(t)
    \/ \E body \in FreeBodies(program) : Effect(body)
    \/ \E key \in ScalarKeys, value \in Vals : Write(key, value)
    \/ \E e \in SubIds : Dispose(e)
    \/ Flush

LiveSpec == LiveInit /\ [][LiveNext]_vars /\ WF_<<last, log>>(Flushed)

(* Every step that is a flush is a Flushed step that changes <<last, log>>, *)
(* and no other step is                                                     *)
FlushedIsFlush ==
    [][/\ last' = "flush" => (Flushed /\ <<last', log'>> # <<last, log>>)
       /\ (Flushed /\ <<last', log'>> # <<last, log>>) => microtasks' <= 1
       /\ microtasks > 0 => pendingEffects # <<>>]_vars

----------------------------------------------------------------------------
(* Vocabulary of the properties *)

(* The <<target, key>> pairs whose forward-index set holds e: the pairs a   *)
(* trigger of which enqueues e                                              *)
Subscribed(e) == {d \in DOMAIN targetMap : InSeq(targetMap[d], e)}
Pending(e) == InSeq(pendingEffects, e)
WriteOps == {"write", "writeSame", "push", "pushItems", "pop"}

(* The scoped subscribers: mounted, and unmounted *)
Mounted(r) == r \in Subs /\ subs[r].kind = "effectRunner" /\ ~subs[r].disposed
Unmounted(r) == r \in Subs /\ subs[r].kind = "effectRunner" /\ subs[r].disposed

(* The events of subscriber r in a log, in order *)
EventsOf(l, r) == SelectSeq(l, LAMBDA ev : ev[2] = r)

----------------------------------------------------------------------------
(* C1 (batching).  At a flush, every active free-standing effect that has   *)
(* had N >= 1 value-changing writes, since the last flush, to properties it *)
(* read in its last evaluation is re-run exactly once by that flush.        *)
C1_BatchedOnce ==
    [][last' = "flush" =>
         \A e \in Subs : (Active(e) /\ writes[e] >= 1) => runCount'[e] = 1]_vars

(* C2 (tracking correctness).  A write of a different value to a property   *)
(* an active effect read enqueues the effect, a write of the same value     *)
(* enqueues nothing, and a flush runs an effect once if it is pending and   *)
(* not at all if it is not.                                                 *)
C2_TrackedWrite ==
    [][/\ last' = "write" =>
            \A e \in Subs, k \in ScalarKeys :
                (Active(e) /\ <<RObj, k>> \in readSet[e] /\ rec'[k] # rec[k]) =>
                    InSeq(pendingEffects', e)
       /\ last' = "writeSame" =>
            (pendingEffects' = pendingEffects /\ microtasks' = microtasks)
       /\ last' = "flush" =>
            \A e \in Subs : Active(e) => runCount'[e] = (IF Pending(e) THEN 1 ELSE 0)]_vars

(* C3 (disposal).  Once its disposer has been called, the body of a         *)
(* free-standing effect never runs again.                                   *)
C3_DisposedNeverRuns ==
    [][\A e \in Subs :
          (subs[e].kind = "execute" /\ subs[e].disposed) => runCount'[e] = 0]_vars

(* C4 (dependency pruning).  After a re-run of an active free-standing      *)
(* effect, the pairs that can enqueue it are exactly the pairs it read in   *)
(* that evaluation.                                                         *)
C4_PrunedToLatestReads ==
    [][last' = "flush" =>
         \A e \in Subs :
            (Active(e) /\ runCount'[e] >= 1) =>
                {d \in DOMAIN targetMap' : InSeq(targetMap'[d], e)} = readSet'[e]]_vars

(* C5 (sequence reactivity).  A push on the wrapper enqueues every active   *)
(* effect that read the sequence's length through the wrapper, and the      *)
(* flush that re-runs such an effect lets it observe the current length.    *)
C5_PushEnqueuesLengthReaders ==
    [][/\ last' \in {"push", "pushItems"} =>
            \A e \in Subs :
                (Active(e) /\ <<AObj, "length">> \in readSet[e]) => InSeq(pendingEffects', e)
       /\ last' = "flush" =>
            \A e \in Subs :
                (Active(e) /\ subs[e].fn = "readLen" /\ Pending(e)) =>
                    (runCount'[e] = 1 /\ seen'[e] = Len(arr'))]_vars

(* C6 (parent propagation).  A push on the wrapper reached through the      *)
(* record's items property enqueues every active effect that read           *)
(* record.items.                                                            *)
C6_PushEnqueuesParentReaders ==
    [][last' = "pushItems" =>
         \A e \in Subs :
            (Active(e) /\ <<RObj, "items">> \in readSet[e]) => InSeq(pendingEffects', e)]_vars

(* C7 (identity stability).  Every target has at most one wrapper, the one  *)
(* the cache holds; wrapping a wrapped target again, or reading the nested  *)
(* object again, returns that wrapper and creates nothing.                  *)
C7_IdentityStable ==
    /\ \A t \in Targets :
          /\ proxyCount[t] <= 1
          /\ Wrapped(t) =>
                LET s == createState(State, t, NoObject, NoKey)
                IN  /\ s.ret = proxyCache[t]
                    /\ s.proxyCache = proxyCache
                    /\ s.proxyCount = proxyCount
                    /\ s.proxyParentMap = proxyParentMap
    /\ Wrapped(RObj) =>
          LET s1 == get(State, proxyCache[RObj], "items")
              s2 == get(s1, proxyCache[RObj], "items")
          IN  /\ s1.ret = s2.ret
              /\ s2.proxyCount = s1.proxyCount
              /\ s2.proxyParentMap = s1.proxyParentMap

C7_Witness ==
    /\ last = "createStateAgain"
    /\ Wrapped(AObj)
    /\ ParentOf(State, proxyCache[AObj]) # NoParent

(* C8 (no synchronous run).  A write or push through a wrapper runs no      *)
(* subscriber body: bodies of enqueued subscribers run only in the flush.   *)
C8_TriggerNeverRuns ==
    last \in WriteOps => \A e \in SubIds : runCount[e] = 0

C8_Witness ==
    /\ last = "write"
    /\ Len(pendingEffects) >= 2

(* C9 (slot restored after a nested evaluation).  Every read a body makes   *)
(* while it is evaluated with tracking on, those after a nested effect()    *)
(* returned included, is recorded as an edge of that body's subscriber.     *)
C9_OuterReadsTracked ==
    last \in {"effect", "mount"} =>
        \A e \in Subs : runCount[e] >= 1 => readSet[e] \subseteq Subscribed(e)

(* C10 (index mirror).  A subscriber is in the forward-index set of a pair  *)
(* exactly when its reverse-index entry holds the pair.                     *)
C10_IndexMirror ==
    \A e \in SubIds, d \in DOMAIN targetMap :
        InSeq(targetMap[d], e) <=> (effectDepsMap[e].has /\ InSeq(effectDepsMap[e].deps, d))

C10_Witness ==
    /\ phase = "unmounted"
    /\ \E e \in Subs : subs[e].kind = "execute" /\ subs[e].disposed
    /\ \E e \in Subs : Subscribed(e) # {}
    /\ last = "flush"

(* C11 (usage error).  createEffect called while no registration context   *)
(* is open throws at once: no body runs, no cleanup is called, and the      *)
(* registration list, both indexes, the subscribers and the scheduler are   *)
(* left as they were.                                                       *)
C11_UsageError ==
    [][last' \in {"usageError", "createEffect"} =>
         /\ activeComponentEffects = Null
         /\ last' = "usageError"
         /\ log' = <<>>
         /\ \A e \in SubIds : runCount'[e] = 0
         /\ UNCHANGED <<activeComponentEffects, effectsRef, cleanups1, cleanups2, phase,
                        targetMap, effectDepsMap, subs, activeEffect,
                        pendingEffects, isFlushPending, microtasks>>]_vars

C11_Witness ==
    /\ last = "usageError"
    /\ phase = "mounted"
    /\ pendingEffects # <<>>

(* C12 (unmount).  Unmounting a mounted scoped effect calls its latest      *)
(* cleanup, if it has one, exactly once, and leaves its re-run wrapper in   *)
(* no forward-index set; from then on the wrapper is in no set and no write *)
(* enqueues it.                                                             *)
C12_UnmountRemoves ==
    [][/\ last' = "unmount" =>
            \A r \in Subs : Mounted(r) =>
                /\ EventsOf(log', r) = IF subs[r].cleanup = CleanupFn
                                       THEN << <<"cleanup", r>> >> ELSE <<>>
                /\ \A d \in DOMAIN targetMap' : ~InSeq(targetMap'[d], r)
       /\ \A r \in Subs : Unmounted(r) =>
                /\ \A d \in DOMAIN targetMap' : ~InSeq(targetMap'[d], r)
                /\ last' \in WriteOps => (InSeq(pendingEffects', r) => Pending(r))]_vars

C12_Witness ==
    /\ last = "write"
    /\ pendingEffects # <<>>
    /\ \E r \in Subs : Unmounted(r) /\ subs[r].cleanup = CleanupFn /\ readSet[r] # {}
                        /\ ~Pending(r)

(* C13 (re-run of a scoped effect).  A flush that re-runs a mounted scoped  *)
(* effect first calls the cleanup its previous run returned, if it returned *)
(* one, then runs the body, and keeps what this run returned as the cleanup *)
(* for the next.                                                            *)
C13_CleanupThenBody ==
    [][last' = "flush" =>
         \A r \in Subs : (Mounted(r) /\ Pending(r)) =>
             /\ EventsOf(log', r) = IF subs[r].cleanup = CleanupFn
                                    THEN << <<"cleanup", r>>, <<"run", r>> >>
                                    ELSE << <<"run", r>> >>
             /\ subs'[r].cleanup = IF ReturnsCleanup(subs[r].fn, rec'["a"])
                                   THEN CleanupFn ELSE Undefined]_vars

C13_Witness ==
    /\ last = "flush"
    /\ \E r \in Subs : /\ Mounted(r)
                        /\ subs[r].fn = "cleanIf"
                        /\ subs[r].cleanup = Undefined
                        /\ EventsOf(log, r) = << <<"cleanup", r>>, <<"run", r>> >>

(* The calls of a body in a log *)
Runs(l) == SelectSeq(l, LAMBDA ev : ev[1] = "run")

(* The re-run wrappers a step creates *)
NewRunners == {r \in (Len(subs) + 1)..Len(subs') : subs'[r].kind = "effectRunner"}

C16_OneFlushScheduled ==
    /\ microtasks \in {0, 1}
    /\ isFlushPending <=> microtasks = 1
    /\ pendingEffects # <<>> => isFlushPending

(* Two writes have enqueued into one batch, for which one flush is scheduled *)
C16_Witness ==
    /\ last \in WriteOps
    /\ microtasks = 1
    /\ Len(pendingEffects) >= 2
    /\ \E e \in Subs : writes[e] >= 2

(* C18 (flush ordering).  A flush runs each subscriber of its batch once,   *)
(* in the order in which they were first enqueued; enqueuing a pending      *)
(* subscriber again leaves the batch as it is, and no subscriber is in the  *)
(* batch twice.                                                             *)
C18_FlushOrder ==
    [][/\ last' = "flush" =>
            SelectSeq(Runs(log'), LAMBDA ev : ev[2] <= Len(subs)) = RunsOf(pendingEffects)
       /\ last' \in WriteOps =>
            /\ Len(pendingEffects') >= Len(pendingEffects)
            /\ SubSeq(pendingEffects', 1, Len(pendingEffects)) = pendingEffects
       /\ \A i, j \in 1..Len(pendingEffects') :
            pendingEffects'[i] = pendingEffects'[j] => i = j]_vars

(* A flush has run two subscribers, the later created one first *)
C18_Witness ==
    /\ last = "flush"
    /\ Len(log) = 2
    /\ log[1][1] = "run" /\ log[2][1] = "run"
    /\ log[1][2] > log[2][2]

(* C15 (re-entrant triggers).  A subscriber enqueued by a write a body      *)
(* makes while a flush runs is in the pending batch the flush leaves, with  *)
(* a new flush scheduled for it; the running flush runs the subscribers of  *)
(* its own batch once each and no other, so the enqueued subscriber is run  *)
(* by a later flush.                                                        *)
C15_ReentrantNewBatch ==
    [][last' = "flush" =>
         /\ \A e \in Subs :
               (rec'["b"] # rec["b"] /\ <<RObj, "b">> \in Subscribed(e)) =>
                   InSeq(pendingEffects', e)
         /\ pendingEffects' # <<>> => (isFlushPending' /\ microtasks' = 1)
         /\ \A e \in Subs : runCount'[e] = IF Pending(e) THEN 1 ELSE 0]_vars

(* A flush has left a batch holding a subscriber it did not run *)
C15_Witness ==
    /\ last = "flush"
    /\ microtasks = 1
    /\ \E e \in Subs : Pending(e) /\ runCount[e] = 0 /\ subs[e].fn = "readB"

(* The body of e throws when it runs now *)
Throws(e) == subs[e].fn = "throwIf" /\ rec["flag"] = 1

(* The positions of the pending batch whose subscriber throws *)
Throwers == {i \in 1..Len(pendingEffects) : Throws(pendingEffects[i])}
FirstThrower == CHOOSE i \in Throwers : \A j \in Throwers : i <= j

(* C19 (a throw in a flush).  A flush whose batch holds a subscriber that   *)
(* throws ends with that exception: it has run the batch up to the first    *)
(* such subscriber and none of those behind it; the batch was emptied       *)
(* before, so those stay out of the batch and subscribed as they were.      *)
C19_ThrowAbortsBatch ==
    [][last' \in {"flush", "flushThrew"} =>
         /\ last' = "flushThrew" <=> Throwers # {}
         /\ Throwers # {} =>
               /\ SelectSeq(Runs(log'), LAMBDA ev : ev[2] <= Len(subs))
                      = RunsOf(SubSeq(pendingEffects, 1, FirstThrower))
               /\ \A i \in (FirstThrower + 1)..Len(pendingEffects) :
                     /\ runCount'[pendingEffects[i]] = 0
                     /\ ~InSeq(pendingEffects', pendingEffects[i])
                     /\ \A d \in DOMAIN targetMap :
                           InSeq(targetMap'[d], pendingEffects[i])
                               <=> InSeq(targetMap[d], pendingEffects[i])]_vars

(* A flush has thrown at its first subscriber, and another subscriber, which *)
(* the change of flag had enqueued, has not run since                       *)
C19_Witness ==
    /\ last = "flushThrew"
    /\ Len(log) = 1
    /\ pendingEffects = <<>>
    /\ \E e \in Subs : /\ log[1] # <<"run", e>>
                        /\ Throws(e)
                        /\ Subscribed(e) = {<<RObj, "flag">>, <<RObj, "b">>}

(* C17 (liveness).  When no body throws, every subscriber in the pending    *)
(* batch is eventually run by a flush.                                      *)
C17_PendingEventuallyRuns ==
    \A e \in 1..MaxEffects : Pending(e) ~> (last = "flush" /\ runCount[e] >= 1)

(* A flush has run the subscriber that writes, and left the reader pending *)
C17_Witness ==
    /\ last = "flush"
    /\ \E e \in Subs : subs[e].fn = "copy" /\ runCount[e] = 1
    /\ \E e \in Subs : subs[e].fn = "readB" /\ Pending(e)

(* C20 (instrumented operations).  An instrumented operation called on the *)
(* wrapper of the sequence enqueues every subscriber that the forward index *)
(* holds for the sequence's length, the pair under which a read of length   *)
(* through the wrapper recorded its edge.                                   *)
C20_TriggersOnTrackedTarget ==
    [][last' \in {"push", "pop"} =>
         \A e \in Subs :
            <<AObj, "length">> \in Subscribed(e) => InSeq(pendingEffects', e)]_vars

(* C21 (tracking suspended).  An instrumented operation a body calls adds   *)
(* no edge for what the native operation reads and writes, and gives the    *)
(* slot back: after a run of the body that pops and then reads a, both      *)
(* indexes hold exactly the edge of that read for its subscriber.           *)
C21_NativeUntracked ==
    [][\A e \in 1..Len(subs') :
          (subs'[e].fn = "popReadA" /\ runCount'[e] >= 1) =>
              /\ \A d \in DOMAIN targetMap' :
                    InSeq(targetMap'[d], e) <=> d = <<RObj, "a">>
              /\ effectDepsMap'[e].deps = << <<RObj, "a">> >>]_vars

(* The body has popped the sequence, which enqueued a reader of its length *)
C21_Witness ==
    /\ last = "effect"
    /\ Len(arr) = 1
    /\ pendingEffects # <<>>
    /\ \E e \in Subs : /\ subs[e].fn = "popReadA"
                        /\ runCount[e] = 1
                        /\ Subscribed(e) = {<<RObj, "a">>}

(* C22 (cleanup called once).  The cleanup function a run of a scoped      *)
(* effect's body returned is called at most once.                           *)
C22_CleanupAtMostOnce ==
    [][\A r \in Subs :
          (subs[r].kind = "effectRunner" /\ subs[r].called >= 1) =>
              \/ EventsOf(log', r) = <<>>
              \/ Head(EventsOf(log', r)) # <<"cleanup", r>>]_vars

(* C23 (fixed dependencies).  Between its mount and its unmount, whatever   *)
(* its re-runs read, a scoped effect's wrapper is in the forward-index sets *)
(* of exactly the pairs its first run captured, and its reverse entry does  *)
(* not change.                                                              *)
C23_DependenciesFixed ==
    [][\A r \in Subs : (Mounted(r) /\ ~subs'[r].disposed) =>
          /\ \A d \in DOMAIN targetMap' :
                InSeq(targetMap'[d], r) <=> InSeq(subs[r].trackedDeps, d)
          /\ subs'[r].trackedDeps = subs[r].trackedDeps
          /\ effectDepsMap'[r] = effectDepsMap[r]]_vars

(* A re-run has read a property that its wrapper is not subscribed to *)
C23_Witness ==
    /\ last = "flush"
    /\ \E r \in Subs : /\ Mounted(r)
                        /\ subs[r].fn = "readMore"
                        /\ runCount[r] = 1
                        /\ readSet[r] = {<<RObj, "a">>, <<RObj, "b">>}
                        /\ Subscribed(r) = {<<RObj, "a">>}

(* C24 (mounted once).  The mount of a component creates one re-run        *)
(* wrapper per registered scoped effect and runs each body once, and a      *)
(* flush re-runs at most one wrapper per registered effect.                 *)
C24_MountedOnce ==
    [][/\ last' = "mount" =>
            /\ Cardinality(NewRunners) = Len(effectsRef)
            /\ Len(SelectSeq(Runs(log'), LAMBDA ev : ev[2] \in NewRunners)) = Len(effectsRef)
       /\ last' = "flush" =>
            Cardinality({r \in Subs : subs[r].kind = "effectRunner" /\ runCount'[r] >= 1})
                <= Len(effectsRef)]_vars

(* C25 (parent linkage is write-once).  A wrapper's parent linkage is       *)
(* recorded only in the step that creates the wrapper and never changes     *)
(* afterwards, by whatever object and property the target is reached again; *)
(* an operation on the sequence enqueues only subscribers of the sequence's *)
(* own pairs and of its wrapper's one linkage pair.                         *)
C25_ParentWriteOnce ==
    [][/\ \A p \in DOMAIN proxyParentMap :
            p \in DOMAIN proxyParentMap' /\ proxyParentMap'[p] = proxyParentMap[p]
       /\ \A p \in DOMAIN proxyParentMap' :
            p \notin DOMAIN proxyParentMap =>
                (proxyCache[TargetOf(p)] = NoObject /\ proxyCache'[TargetOf(p)] = p)
       /\ last' \in {"push", "pushItems", "pop"} =>
            \A e \in Subs :
                (InSeq(pendingEffects', e) /\ ~Pending(e)) =>
                    \E d \in Subscribed(e) :
                        d[1] = AObj \/ d = ParentOf(State, proxyCache[AObj])]_vars

(* The sequence was first reached as other.items; a push by state.items,    *)
(* a cache hit through another parent, has found that linkage               *)
C25_Witness ==
    /\ last = "pushItems"
    /\ ParentOf(State, proxyCache[AObj]) = <<PObj, "items">>
    /\ \E e \in Subs : subs[e].fn = "readItems" /\ Subscribed(e) # {}

(* C26 (deletion).  Deleting a property through the wrapper removes it     *)
(* from the target, enqueues no subscriber, runs no body and leaves both    *)
(* indexes, the pending batch and the scheduler as they were.               *)
C26_DeleteIsSilent ==
    [][last' \in {"delete", "deleteAbsent"} =>
         /\ \E key \in ScalarKeys : rec' = [rec EXCEPT ![key] = Undefined]
         /\ \A e \in SubIds : runCount'[e] = 0
         /\ log' = <<>>
         /\ UNCHANGED <<targetMap, effectDepsMap, pendingEffects, isFlushPending,
                        microtasks, activeEffect, subs>>]_vars

(* A property an active, idle effect is subscribed to has been deleted *)
C26_Witness ==
    /\ last = "delete"
    /\ rec["a"] = Undefined
    /\ pendingEffects = <<>>
    /\ \E e \in Subs : Active(e) /\ <<RObj, "a">> \in Subscribed(e)

====
